---- MODULE Spec2Model ----
(***************************************************************************)
(* Model of the VASP_MD_scripts repository:                                *)
(*   - calculate_and_plot_free_energy (calculate_plot_chemical_potential)  *)
(*   - grep_energy (gre_energy_pressure)                                   *)
(* Python floats are modelled as exact extended reals: a finite rational,  *)
(* +inf / -inf, NaN, or the exact square root of a non-negative rational   *)
(* (the result of math.sqrt).  Rounding is not modelled.                   *)
(***************************************************************************)
EXTENDS Integers, Sequences, FiniteSets, TLC

\* ------------------------------------------------------------------ bounds
\* mean energies are drawn from 0..MaxMean
MaxMean == 1
\* fluctuation terms are drawn from -MaxFluc..MaxFluc
MaxFluc == 1
\* uncertainties (standard errors) are drawn from 0..MaxErr
MaxErr == 1
\* grep_energy: last step index scanned (stands for 10000)
MaxIndex == 30
\* grep_energy: longest OUTCAR file, in lines
MaxLines == 2

\* ---------------------------------------------------------- float values
Abs(n) == IF n < 0 THEN -n ELSE n

RECURSIVE GCD(_, _)
GCD(a, b) == IF b = 0 THEN a ELSE GCD(b, a % b)

\* the finite float n/d, in lowest terms with a positive denominator
Fin(n, d) ==
    LET s == IF d < 0 THEN -1 ELSE 1
        g == GCD(Abs(n), Abs(d))
    IN  [k |-> "fin", n |-> (s * n) \div g, d |-> (s * d) \div g]

I(n) == Fin(n, 1)
NaN == [k |-> "nan", n |-> 0, d |-> 1]
PosInf == [k |-> "inf", n |-> 1, d |-> 1]
NegInf == [k |-> "inf", n |-> -1, d |-> 1]
\* a local that has not been assigned
None == [k |-> "none", n |-> 0, d |-> 1]

IsFinite(a) == a.k = "fin" \/ a.k = "root"
Sgn(a) == IF a.n > 0 THEN 1 ELSE IF a.n < 0 THEN -1 ELSE 0

\* unary minus
Neg(a) == IF a.k = "nan" THEN NaN ELSE [a EXCEPT !.n = -a.n]

\* a + b
Add(a, b) ==
    IF a.k = "nan" \/ b.k = "nan" THEN NaN
    ELSE IF a.k = "inf" /\ b.k = "inf" THEN (IF a.n = b.n THEN a ELSE NaN)
    ELSE IF a.k = "inf" THEN a
    ELSE IF b.k = "inf" THEN b
    ELSE LET g == GCD(a.d, b.d)
         IN  Fin(a.n * (b.d \div g) + b.n * (a.d \div g), (a.d \div g) * b.d)

\* a - b
Sub(a, b) == Add(a, Neg(b))

\* a * b
Mul(a, b) ==
    IF a.k = "nan" \/ b.k = "nan" THEN NaN
    ELSE IF a.k = "inf" \/ b.k = "inf"
         THEN (IF Sgn(a) * Sgn(b) = 0 THEN NaN
               ELSE IF Sgn(a) * Sgn(b) > 0 THEN PosInf ELSE NegInf)
    ELSE Fin(a.n * b.n, a.d * b.d)

\* a / b raises ZeroDivisionError when b is zero, whatever a is
DivRaises(b) == b.k = "fin" /\ b.n = 0

\* a / b for b # 0; math.sqrt(q) / b is the root of q / b^2
Div(a, b) ==
    IF a.k = "nan" \/ b.k = "nan" THEN NaN
    ELSE IF a.k = "inf" /\ b.k = "inf" THEN NaN
    ELSE IF a.k = "inf" THEN (IF Sgn(a) * Sgn(b) > 0 THEN PosInf ELSE NegInf)
    ELSE IF b.k = "inf" THEN I(0)
    ELSE IF a.k = "root"
         THEN [Fin(a.n * b.d * b.d, a.d * b.n * b.n) EXCEPT !.k = "root"]
    ELSE Fin(a.n * b.d, a.d * b.n)

\* a ** 2; the square of math.sqrt(q) is q
Pow2(a) == IF a.k = "root" THEN [a EXCEPT !.k = "fin"] ELSE Mul(a, a)

\* a ** 4
Pow4(a) == Pow2(Pow2(a))

\* math.sqrt raises ValueError on a negative argument
SqrtRaises(a) == a.k \in {"fin", "inf"} /\ a.n < 0

\* math.sqrt(a) for a >= 0, NaN or +inf
MathSqrt(a) == IF a.k = "fin" THEN [a EXCEPT !.k = "root"] ELSE a

\* a <= b; every comparison with NaN is false.  Two math.sqrt results
\* compare as their arguments do.
Leq(a, b) ==
    IF a.k = "nan" \/ b.k = "nan" THEN FALSE
    ELSE IF a.k = "inf" THEN (a.n < 0 \/ b = PosInf)
    ELSE IF b.k = "inf" THEN b.n > 0
    ELSE LET g == GCD(a.d, b.d)
         IN  a.n * (b.d \div g) <= b.n * (a.d \div g)


\* ------------------------------------- calculate_and_plot_free_energy
VARIABLES
    lambda0_data,       \* argument: <<mean, mean_err, fluc, fluc_err>> at Lambda=0
    lambda1_data,       \* argument: the same at Lambda=1
    pc,                 \* index in Body of the next statement
    status,             \* "running", "returned" or "raised"
    y0_intercept, y0_intercept_err, y1_intercept, y1_intercept_err,
    y0_slope, y0_slope_err, y1_slope, y1_slope_err,
    x_intersect, x_intersect_err, integral, integral_err,
    ret,                \* the returned tuple, <<>> before the return
    raised,             \* the exception that ended the call, "" if none
    figure_shown,       \* plt.show() was reached
    prev                \* the caller's record of the preceding call

calc_vars == <<lambda0_data, lambda1_data, pc, status,
               y0_intercept, y0_intercept_err, y1_intercept, y1_intercept_err,
               y0_slope, y0_slope_err, y1_slope, y1_slope_err,
               x_intersect, x_intersect_err, integral, integral_err,
               ret, raised, figure_shown, prev>>

locals == <<y0_intercept, y0_intercept_err, y1_intercept, y1_intercept_err,
            y0_slope, y0_slope_err, y1_slope, y1_slope_err,
            x_intersect, x_intersect_err, integral, integral_err>>

params == <<y0_intercept, y0_intercept_err, y1_intercept, y1_intercept_err,
            y0_slope, y0_slope_err, y1_slope, y1_slope_err, x_intersect>>

\* mutant: the plotting stage placed before the return statement
Body_ReturnLast == <<"line_params", "intersect", "branch", "plot", "return">>

\* the statements of the function body, in source order
Body == <<"line_params", "intersect", "branch", "return", "plot">>

\* e0_avg, e0_err, e0_fluc, e0_fluc_err = lambda0_data (and lambda1_data)
e0_avg == lambda0_data[1]
e0_err == lambda0_data[2]
e0_fluc == lambda0_data[3]
e0_fluc_err == lambda0_data[4]
e1_avg == lambda1_data[1]
e1_err == lambda1_data[2]
e1_fluc == lambda1_data[3]
e1_fluc_err == lambda1_data[4]

\* y1_intercept = e1_avg - 2 * e1_fluc
Y1Intercept == Sub(e1_avg, Mul(I(2), e1_fluc))

\* the argument of math.sqrt in y1_intercept_err
Y1InterceptErrArg == Add(Pow2(e1_err), Mul(I(4), Pow2(e1_fluc_err)))

\* y0_slope = 2 * e0_fluc, y1_slope = 2 * e1_fluc (and the two slope errors)
Slope(fluc) == Mul(I(2), fluc)

\* mutant: the slope difference taken the other way round
XIntersect_SwappedSlopes ==
    Div(Sub(y0_intercept, y1_intercept), Sub(y0_slope, y1_slope))

\* x_intersect = (y0_intercept - y1_intercept) / (y1_slope - y0_slope)
XIntersect == Div(Sub(y0_intercept, y1_intercept), Sub(y1_slope, y0_slope))

\* mutant: 0 < x <= 1
InDomain_OpenAtZero(x) == Leq(I(0), x) /\ x # I(0) /\ Leq(x, I(1))

\* 0 <= x <= 1
InDomain(x) == Leq(I(0), x) /\ Leq(x, I(1))

\* mutant: the average of the two intercepts instead of the two means
FallbackIntegral_FromIntercepts == Div(Add(y0_intercept, y1_intercept), I(2))

\* integral = (e0_avg + e1_avg) / 2
FallbackIntegral == Div(Add(e0_avg, e1_avg), I(2))

\* mutant: a sign slip, e0_err**2 - e1_err**2
FallbackErrArg_Difference == Sub(Pow2(e0_err), Pow2(e1_err))

\* the argument of math.sqrt in the fallback integral_err
FallbackErrArg == Add(Pow2(e0_err), Pow2(e1_err))

\* the argument of math.sqrt in x_intersect_err
XIntersectErrArg ==
    Add(Div(Add(Pow2(y0_intercept_err), Pow2(y1_intercept_err)),
            Pow2(Sub(y1_slope, y0_slope))),
        Mul(Div(Pow2(Sub(y0_intercept, y1_intercept)),
                Pow2(Sub(y1_slope, y0_slope))),
            Add(Pow2(y1_slope_err), Pow2(y0_slope_err))))

\* integral_y0 = (y0_slope * x**2) / 2 + y0_intercept * x
IntegralY0(x) == Add(Div(Mul(y0_slope, Pow2(x)), I(2)), Mul(y0_intercept, x))

\* integral_y1 = (y1_slope * (1 - x**2)) / 2 + y1_intercept * (1 - x)
IntegralY1(x) ==
    Add(Div(Mul(y1_slope, Sub(I(1), Pow2(x))), I(2)),
        Mul(y1_intercept, Sub(I(1), x)))

\* the argument of math.sqrt in the in-domain integral_err; xe is
\* x_intersect_err
IntegralErrArg(x, xe) ==
    LET t1 == Pow2(e1_err)
        t2 == Div(Pow2(y1_slope_err), I(4))
        t3 == Mul(Pow2(xe),
                  Pow2(Add(Sub(y0_intercept, e1_avg), y1_slope)))
        t4 == Mul(Pow2(x),
                  Add(Add(Pow2(y0_intercept_err), Pow2(e1_err)),
                      Pow2(y1_slope_err)))
        t5 == Mul(Mul(Pow2(x), Pow2(xe)), Pow2(Sub(y0_slope, y1_slope)))
        t6 == Mul(Div(Pow4(x), I(4)),
                  Add(Pow2(y0_slope_err), Pow2(y1_slope_err)))
    IN  Add(Add(Add(Add(Add(t1, t2), t3), t4), t5), t6)

\* the call ends with an exception
Raise(exc) ==
    /\ status' = "raised"
    /\ raised' = exc
    /\ UNCHANGED <<pc, ret, figure_shown>>

\* "Calculate line parameters"
LineParams ==
    IF SqrtRaises(Y1InterceptErrArg)
    THEN Raise("ValueError") /\ UNCHANGED locals
    ELSE /\ y0_intercept' = e0_avg
         /\ y0_intercept_err' = e0_err
         /\ y1_intercept' = Y1Intercept
         /\ y1_intercept_err' = MathSqrt(Y1InterceptErrArg)
         /\ y0_slope' = Slope(e0_fluc)
         /\ y0_slope_err' = Slope(e0_fluc_err)
         /\ y1_slope' = Slope(e1_fluc)
         /\ y1_slope_err' = Slope(e1_fluc_err)
         /\ pc' = pc + 1
         /\ UNCHANGED <<x_intersect, x_intersect_err, integral, integral_err,
                        status, ret, raised, figure_shown>>

\* "Calculate intersection point"
Intersect ==
    IF DivRaises(Sub(y1_slope, y0_slope))
    THEN Raise("ZeroDivisionError") /\ UNCHANGED locals
    ELSE /\ x_intersect' = XIntersect
         /\ pc' = pc + 1
         /\ UNCHANGED <<y0_intercept, y0_intercept_err, y1_intercept,
                        y1_intercept_err, y0_slope, y0_slope_err, y1_slope,
                        y1_slope_err, x_intersect_err, integral, integral_err,
                        status, ret, raised, figure_shown>>

\* if not 0 <= x_intersect <= 1: ... else: ...
Branch ==
    IF ~InDomain(x_intersect)
    THEN IF SqrtRaises(FallbackErrArg)
         THEN Raise("ValueError") /\ UNCHANGED locals
         ELSE /\ integral' = FallbackIntegral
              /\ integral_err' = Div(MathSqrt(FallbackErrArg), I(2))
              /\ pc' = pc + 1
              /\ UNCHANGED <<params, x_intersect_err,
                             status, ret, raised, figure_shown>>
    ELSE IF \/ DivRaises(Pow2(Sub(y1_slope, y0_slope)))
            \/ SqrtRaises(XIntersectErrArg)
            \/ SqrtRaises(IntegralErrArg(x_intersect,
                                         MathSqrt(XIntersectErrArg)))
         THEN Raise(IF DivRaises(Pow2(Sub(y1_slope, y0_slope)))
                    THEN "ZeroDivisionError" ELSE "ValueError")
              /\ UNCHANGED locals
         ELSE LET xe == MathSqrt(XIntersectErrArg) IN
              /\ x_intersect_err' = xe
              /\ integral' = Add(IntegralY0(x_intersect),
                                 IntegralY1(x_intersect))
              /\ integral_err' = MathSqrt(IntegralErrArg(x_intersect, xe))
              /\ pc' = pc + 1
              /\ UNCHANGED <<params, status, ret, raised, figure_shown>>

\* return integral, integral_err
Return ==
    /\ ret' = <<integral, integral_err>>
    /\ status' = "returned"
    /\ UNCHANGED <<pc, locals, raised, figure_shown>>

\* "Plotting": np.linspace ... plt.show()
Plot ==
    /\ figure_shown' = TRUE
    /\ pc' = pc + 1
    /\ UNCHANGED <<locals, status, ret, raised>>

\* falling off the end of the body returns None
FallOff ==
    /\ status' = "returned"
    /\ UNCHANGED <<pc, locals, ret, raised, figure_shown>>

\* the interpreter executes the next statement of the body
Exec(stmt) ==
    CASE stmt = "line_params" -> LineParams
      [] stmt = "intersect" -> Intersect
      [] stmt = "branch" -> Branch
      [] stmt = "return" -> Return
      [] stmt = "plot" -> Plot
      [] OTHER -> FallOff


\* ------------------------------------------------------------ grep_energy
VARIABLES
    i,                  \* the loop index
    listed,             \* the two files of index i are on disk as they will be read
    al_file,            \* Al{prefix}/OUTCAR.i
    almg_file,          \* AlMg{prefix}/OUTCAR.i
    data,               \* the rows collected so far
    csv,                \* the CSV file written
    gret,               \* the returned tuple, <<>> before the return
    gstatus             \* "idle", "scanning" or "returned"

grep_vars == <<i, listed, al_file, almg_file, data, csv, gret, gstatus>>

vars == <<calc_vars, grep_vars>>

\* range(10, 10001, 10): first index and stride
FirstIndex == 10
Stride == 10

Digits == {"0", "1", "2", "3", "4", "5", "6", "7", "8", "9"}

DigitVal(c) ==
    CASE c = "0" -> 0 [] c = "1" -> 1 [] c = "2" -> 2 [] c = "3" -> 3
      [] c = "4" -> 4 [] c = "5" -> 5 [] c = "6" -> 6 [] c = "7" -> 7
      [] c = "8" -> 8 [] c = "9" -> 9

\* str.replace('.', '', 1): the token without its first dot
RECURSIVE ReplaceFirstDot(_)
ReplaceFirstDot(tok) ==
    IF tok = <<>> THEN <<>>
    ELSE IF Head(tok) = "." THEN Tail(tok)
    ELSE <<Head(tok)>> \o ReplaceFirstDot(Tail(tok))

\* str.isdigit(): non-empty and digits only
IsDigit(tok) == tok # <<>> /\ \A j \in 1..Len(tok) : tok[j] \in Digits

\* float(tok) of a decimal literal: optional sign, digits, at most one dot
RECURSIVE FloatAcc(_, _, _, _)
FloatAcc(tok, num, den, dot) ==
    IF tok = <<>> THEN Fin(num, den)
    ELSE IF Head(tok) = "." THEN FloatAcc(Tail(tok), num, den, TRUE)
    ELSE FloatAcc(Tail(tok), 10 * num + DigitVal(Head(tok)),
                  IF dot THEN 10 * den ELSE den, dot)

Float(tok) ==
    IF Head(tok) = "-" THEN Neg(FloatAcc(Tail(tok), 0, 1, FALSE))
    ELSE FloatAcc(tok, 0, 1, FALSE)

\* An OUTCAR line: kind is the substring it holds, tok the token the code
\* reads from it (split()[4] of an energy line, split()[3] of a pressure
\* line; <<>> when the line has no such token).
EnergyLine(tok) == [kind |-> "free  en", tok |-> tok]
PressureLine(tok) == [kind |-> "external pressure", tok |-> tok]

OutcarLines ==
    { EnergyLine(<<"-", "1">>), EnergyLine(<<"-", "2">>),
      PressureLine(<<"5", ".", "5">>), PressureLine(<<"-", "5">>),
      PressureLine(<<>>) }

RECURSIVE SeqsUpTo(_, _)
SeqsUpTo(S, n) ==
    IF n = 0 THEN {<<>>}
    ELSE LET shorter == SeqsUpTo(S, n - 1)
         IN  shorter \cup {Append(q, x) : q \in shorter, x \in S}

NoFile == [exists |-> FALSE, lines |-> <<>>]
Files ==
    {NoFile} \cup {[exists |-> TRUE, lines |-> q] : q \in SeqsUpTo(OutcarLines, MaxLines)}

\* values = {'eal': None, 'pal': None, 'ealmg': None, 'palmg': None}
NoValues == [eal |-> None, pal |-> None, ealmg |-> None, palmg |-> None]

\* the body of "for line in rf" for one line
ScanLine(values, line, e_key, p_key) ==
    IF line.kind = "free  en"
    THEN [values EXCEPT ![e_key] = Float(line.tok)]
    ELSE IF line.kind = "external pressure"
    THEN IF line.tok # <<>> /\ IsDigit(ReplaceFirstDot(line.tok))
         THEN [values EXCEPT ![p_key] = Float(line.tok)]
         ELSE values
    ELSE values

\* "for line in rf" over a whole file
RECURSIVE ScanFile(_, _, _, _)
ScanFile(values, lines, e_key, p_key) ==
    IF lines = <<>> THEN values
    ELSE ScanFile(ScanLine(values, Head(lines), e_key, p_key),
                  Tail(lines), e_key, p_key)

\* os.path.isfile(al_file) and os.path.isfile(almg_file)
BothExist(al, almg) == al.exists /\ almg.exists

\* mutant: any(...) instead of all(...)
AllFound_Any(values) ==
    \E key \in {"eal", "pal", "ealmg", "palmg"} : values[key] # None

\* all(v is not None for v in values.values())
AllFound(values) ==
    \A key \in {"eal", "pal", "ealmg", "palmg"} : values[key] # None

\* the dict appended to data
Row(values) ==
    [ealmg |-> values.ealmg,
     eal |-> values.eal,
     energy_diff |-> Sub(values.ealmg, values.eal),
     pal |-> values.pal,
     palmg |-> values.palmg,
     pressure_diff |-> Sub(values.pal, values.palmg)]

Columns == <<"ealmg", "eal", "energy_diff", "pal", "palmg", "pressure_diff">>

RECURSIVE SumSeq(_)
SumSeq(q) == IF q = <<>> THEN I(0) ELSE Add(Head(q), SumSeq(Tail(q)))

\* Series.mean(): NaN for an empty column
Mean(q) == IF q = <<>> THEN NaN ELSE Div(SumSeq(q), I(Len(q)))

\* Series.sem(): sqrt(variance with ddof=1 / n), NaN below two rows
Sem(q) ==
    IF Len(q) < 2 THEN NaN
    ELSE LET m == Mean(q)
             dev == [j \in 1..Len(q) |-> Pow2(Sub(q[j], m))]
             var == Div(SumSeq(dev), I(Len(q) - 1))
         IN  MathSqrt(Div(var, I(Len(q))))

EnergyDiffs == [j \in 1..Len(data) |-> data[j].energy_diff]

\* The environment: whatever the simulation left on disk for index i, a
\* pair of files the function has not looked at before.
Lookup ==
    /\ gstatus = "scanning"
    /\ i <= MaxIndex
    /\ ~listed
    /\ al_file' \in Files
    /\ almg_file' \in Files
    /\ listed' = TRUE
    /\ UNCHANGED <<i, data, csv, gret, gstatus, calc_vars>>

\* one iteration of "for i in range(10, 10001, 10)"
ScanStep ==
    /\ gstatus = "scanning"
    /\ i <= MaxIndex
    /\ listed
    /\ LET values == ScanFile(ScanFile(NoValues, al_file.lines, "eal", "pal"),
                              almg_file.lines, "ealmg", "palmg")
       IN  data' = IF BothExist(al_file, almg_file) /\ AllFound(values)
                   THEN Append(data, Row(values))
                   ELSE data
    /\ i' = i + Stride
    /\ listed' = FALSE
    /\ al_file' = NoFile
    /\ almg_file' = NoFile
    /\ UNCHANGED <<csv, gret, gstatus, calc_vars>>

\* df.to_csv(csv_file, index=False); return mean, sem
Finish ==
    /\ gstatus = "scanning"
    /\ i > MaxIndex
    /\ csv' = [written |-> TRUE, header |-> Columns, rows |-> data]
    /\ gret' = <<Mean(EnergyDiffs), Sem(EnergyDiffs)>>
    /\ gstatus' = "returned"
    /\ UNCHANGED <<i, listed, al_file, almg_file, data, calc_vars>>

GrepIdle ==
    /\ i = 0
    /\ listed = FALSE
    /\ al_file = NoFile
    /\ almg_file = NoFile
    /\ data = <<>>
    /\ csv = [written |-> FALSE, header |-> <<>>, rows |-> <<>>]
    /\ gret = <<>>
    /\ gstatus = "idle"

\* ------------------------------------------------------- specifications
\* one step of the call: the statement at pc
Step ==
    /\ status = "running"
    /\ Exec(IF pc <= Len(Body) THEN Body[pc] ELSE "end")
    /\ UNCHANGED <<lambda0_data, lambda1_data, prev, grep_vars>>

NoPrev == [set |-> FALSE, l0 |-> <<>>, l1 |-> <<>>, ret |-> <<>>, x |-> None]

Unassigned ==
    /\ y0_intercept = None /\ y0_intercept_err = None
    /\ y1_intercept = None /\ y1_intercept_err = None
    /\ y0_slope = None /\ y0_slope_err = None
    /\ y1_slope = None /\ y1_slope_err = None
    /\ x_intersect = None /\ x_intersect_err = None
    /\ integral = None /\ integral_err = None

\* a new frame: no local is assigned
ResetLocals ==
    /\ y0_intercept' = None /\ y0_intercept_err' = None
    /\ y1_intercept' = None /\ y1_intercept_err' = None
    /\ y0_slope' = None /\ y0_slope_err' = None
    /\ y1_slope' = None /\ y1_slope_err' = None
    /\ x_intersect' = None /\ x_intersect_err' = None
    /\ integral' = None /\ integral_err' = None

\* The caller calls again with one uncertainty field (index 2 or 4 of
\* either sample) raised and everything else as before.
CallAgain ==
    /\ status # "running"
    /\ \E which \in 0..1, field \in {2, 4}, v \in 0..MaxErr :
         LET old == IF which = 0 THEN lambda0_data[field]
                    ELSE lambda1_data[field]
         IN  /\ old.k = "fin"
             /\ Leq(old, I(v)) /\ old # I(v)
             /\ lambda0_data' = IF which = 0
                                THEN [lambda0_data EXCEPT ![field] = I(v)]
                                ELSE lambda0_data
             /\ lambda1_data' = IF which = 1
                                THEN [lambda1_data EXCEPT ![field] = I(v)]
                                ELSE lambda1_data
    /\ prev' = [set |-> TRUE, l0 |-> lambda0_data, l1 |-> lambda1_data,
                ret |-> ret, x |-> x_intersect]
    /\ pc' = 1
    /\ status' = "running"
    /\ ret' = <<>>
    /\ raised' = ""
    /\ figure_shown' = FALSE
    /\ ResetLocals
    /\ UNCHANGED grep_vars

\* the samples a caller passes: [mean, mean_err, fluc, fluc_err]; the two
\* uncertainties are standard errors, hence not negative
Samples ==
    { <<I(m), I(me), I(f), I(fe)>> :
        m \in 0..MaxMean, me \in 0..MaxErr,
        f \in (-MaxFluc)..MaxFluc, fe \in 0..MaxErr }

Started ==
    /\ pc = 1
    /\ status = "running"
    /\ ret = <<>>
    /\ raised = ""
    /\ figure_shown = FALSE
    /\ prev = NoPrev
    /\ Unassigned

Init ==
    /\ lambda0_data \in Samples
    /\ lambda1_data \in Samples
    /\ Started
    /\ GrepIdle

Next == Step \/ CallAgain

Spec == Init /\ [][Next]_vars

\* a call in which one of the eight fields is NaN or infinite
InitNonFinite ==
    /\ \E l0 \in Samples, l1 \in Samples, which \in 0..1, field \in 1..4,
          bad \in {NaN, PosInf, NegInf} :
         /\ lambda0_data = IF which = 0 THEN [l0 EXCEPT ![field] = bad] ELSE l0
         /\ lambda1_data = IF which = 1 THEN [l1 EXCEPT ![field] = bad] ELSE l1
    /\ Started
    /\ GrepIdle

NonFiniteSpec == InitNonFinite /\ [][Next]_vars

CalcIdle ==
    /\ lambda0_data = <<>>
    /\ lambda1_data = <<>>
    /\ pc = 0
    /\ status = "idle"
    /\ ret = <<>>
    /\ raised = ""
    /\ figure_shown = FALSE
    /\ prev = NoPrev
    /\ Unassigned

GrepInit ==
    /\ CalcIdle
    /\ i = FirstIndex
    /\ listed = FALSE
    /\ al_file = NoFile
    /\ almg_file = NoFile
    /\ data = <<>>
    /\ csv = [written |-> FALSE, header |-> <<>>, rows |-> <<>>]
    /\ gret = <<>>
    /\ gstatus = "scanning"

GrepNext == Lookup \/ ScanStep \/ Finish

GrepSpec == GrepInit /\ [][GrepNext]_vars


\* ------------------------------------------------------------- the claims
\* The two linear models as the specification states them (section 4.1),
\* written from the arguments alone.
slope0 == Mul(I(2), e0_fluc)
slope0_err == Mul(I(2), e0_fluc_err)
intercept0 == e0_avg
intercept0_errSq == Pow2(e0_err)
slope1 == Mul(I(2), e1_fluc)
slope1_err == Mul(I(2), e1_fluc_err)
intercept1 == Sub(e1_avg, Mul(I(2), e1_fluc))
intercept1_errSq == Add(Pow2(e1_err), Mul(I(4), Pow2(e1_fluc_err)))

\* x is a finite number in [0, 1]
InUnitInterval(x) == x.k = "fin" /\ 0 <= x.n /\ x.n <= x.d

\* the in-domain branch assigned x_intersect_err, the fallback did not
TookInDomainBranch == x_intersect_err # None

\* C1: with equal slopes the call does not raise, takes the fallback and
\* returns an integral equal to (mean_energy0 + mean_energy1) / 2.
C1_EqualSlopesFallBack ==
    (slope1 = slope0) =>
        /\ status # "raised"
        /\ status = "returned" =>
              /\ ~TookInDomainBranch
              /\ ret[1] = Div(Add(e0_avg, e1_avg), I(2))

\* C2: with slope1 # slope0, once the intersection statement has run, x is a
\* finite number lying on both lines:
\* slope0*x + intercept0 = slope1*x + intercept1.
C2_IntersectionOnBothLines ==
    (status = "running" /\ pc > 2 /\ slope1 # slope0) =>
        /\ x_intersect.k = "fin"
        /\ Add(Mul(slope0, x_intersect), intercept0)
             = Add(Mul(slope1, x_intersect), intercept1)

C2_Witness ==
    /\ status = "running" /\ pc > 2
    /\ x_intersect.k = "fin" /\ x_intersect.d > 1

\* C3: a returned call took the in-domain branch exactly when 0 <= x <= 1,
\* boundaries included, and then its integral is
\* slope0*x^2/2 + intercept0*x + slope1*(1 - x^2)/2 + intercept1*(1 - x),
\* which is the area under the Lambda=0 line over [0, x] plus the area under
\* the Lambda=1 line over [x, 1] (each a trapezoid).
C3_InDomainIntegral ==
    status = "returned" =>
        LET x == x_intersect
            y0(t) == Add(Mul(slope0, t), intercept0)
            y1(t) == Add(Mul(slope1, t), intercept1)
        IN  /\ TookInDomainBranch <=> InUnitInterval(x)
            /\ TookInDomainBranch =>
                 /\ ret[1] = Add(Add(Div(Mul(slope0, Pow2(x)), I(2)),
                                     Mul(intercept0, x)),
                                 Add(Div(Mul(slope1, Sub(I(1), Pow2(x))), I(2)),
                                     Mul(intercept1, Sub(I(1), x))))
                 /\ ret[1] = Add(Mul(x, Div(Add(y0(I(0)), y0(x)), I(2))),
                                 Mul(Sub(I(1), x),
                                     Div(Add(y1(x), y1(I(1))), I(2))))

C3_Witness ==
    /\ status = "returned"
    /\ TookInDomainBranch
    /\ x_intersect = I(0)

\* C4: a returned call whose x lies outside [0, 1] returns
\* integral = (mean0 + mean1)/2 and
\* integral_err = sqrt(mean_err0^2 + mean_err1^2)/2, functions of the means
\* and their uncertainties alone, and computes no uncertainty of x.
C4_Fallback ==
    (status = "returned" /\ ~InUnitInterval(x_intersect)) =>
        /\ ret[1] = Div(Add(e0_avg, e1_avg), I(2))
        /\ ret[2].k = "root"
        /\ Pow2(ret[2]) = Div(Add(Pow2(e0_err), Pow2(e1_err)), I(4))
        /\ x_intersect_err = None

C4_Witness ==
    /\ status = "returned"
    /\ ~InUnitInterval(x_intersect)
    /\ e0_fluc_err # I(0) /\ e1_fluc_err # I(0)
    /\ e0_err # I(0)
    /\ e0_avg # e1_avg

\* C5: on the in-domain branch x_err^2 is the first-order propagation
\* (intercept0_err^2 + intercept1_err^2)/(slope1 - slope0)^2
\*   + (intercept0 - intercept1)^2/(slope1 - slope0)^4
\*       * (slope0_err^2 + slope1_err^2).
C5_XErrFirstOrder ==
    TookInDomainBranch =>
        LET dm == Sub(slope1, slope0) IN
        Pow2(x_intersect_err)
          = Add(Div(Add(intercept0_errSq, intercept1_errSq), Pow2(dm)),
                Mul(Div(Pow2(Sub(intercept0, intercept1)), Pow4(dm)),
                    Add(Pow2(slope0_err), Pow2(slope1_err))))

\* C6: on the in-domain branch integral_err^2 is the sum of
\* (dI/dp * err_p)^2 over p in {x, slope0, slope1, intercept0, intercept1}
\* with dI/dx = (slope0 - slope1)*x + (intercept0 - intercept1),
\* dI/dslope0 = x^2/2, dI/dslope1 = (1 - x^2)/2, dI/dintercept0 = x,
\* dI/dintercept1 = 1 - x.
C6_IntegralErrFirstOrder ==
    (status = "returned" /\ TookInDomainBranch) =>
        LET x == x_intersect
            dIdx == Add(Mul(Sub(slope0, slope1), x), Sub(intercept0, intercept1))
            dIds0 == Div(Pow2(x), I(2))
            dIds1 == Div(Sub(I(1), Pow2(x)), I(2))
            dIdi0 == x
            dIdi1 == Sub(I(1), x)
        IN  Pow2(ret[2])
              = Add(Add(Add(Add(Mul(Pow2(dIdx), Pow2(x_intersect_err)),
                                Mul(Pow2(dIds0), Pow2(slope0_err))),
                            Mul(Pow2(dIds1), Pow2(slope1_err))),
                        Mul(Pow2(dIdi0), intercept0_errSq)),
                    Mul(Pow2(dIdi1), intercept1_errSq))

\* the second pair of samples is the first with exactly one uncertainty
\* field (index 2 or 4 of either sample) made larger, and non-negative
OneUncertaintyRaised(a0, a1, b0, b1) ==
    \E which \in 0..1, field \in {2, 4} :
        LET a == IF which = 0 THEN a0 ELSE a1
            b == IF which = 0 THEN b0 ELSE b1
        IN  /\ Leq(a[field], b[field]) /\ a[field] # b[field]
            /\ Leq(I(0), b[field])
            /\ b = [a EXCEPT ![field] = b[field]]
            /\ (IF which = 0 THEN a1 = b1 ELSE a0 = b0)

AnyInputNonFinite ==
    \E j \in 1..4 : ~IsFinite(lambda0_data[j]) \/ ~IsFinite(lambda1_data[j])

\* C8: when any of the eight input fields is NaN or infinite, a returned
\* pair has a NaN or infinite component.
C8_NonFinitePropagates ==
    (status = "returned" /\ AnyInputNonFinite) =>
        (~IsFinite(ret[1]) \/ ~IsFinite(ret[2]))

\* an "external pressure" line whose fourth token is an unsigned decimal
\* number: digits with at most one dot
HasPressure(file) ==
    \E j \in 1..Len(file.lines) :
        LET line == file.lines[j] IN
        /\ line.kind = "external pressure"
        /\ \E d \in 1..Len(line.tok) : line.tok[d] \in Digits
        /\ \A d \in 1..Len(line.tok) : line.tok[d] \in Digits \cup {"."}
        /\ Cardinality({d \in 1..Len(line.tok) : line.tok[d] = "."}) <= 1

HasEnergy(file) ==
    \E j \in 1..Len(file.lines) : file.lines[j].kind = "free  en"

\* C9 (state part): the loop index runs over 10, 20, ... up to the last
\* index; a call that collected no row has written a CSV with the six column
\* names and no data rows and returns (nan, nan).
C9_State ==
    /\ gstatus # "idle" =>
          /\ i % Stride = 0
          /\ FirstIndex <= i
          /\ i <= MaxIndex + Stride
    /\ (gstatus = "returned" /\ data = <<>>) =>
          /\ csv.written
          /\ csv.header
               = <<"ealmg", "eal", "energy_diff", "pal", "palmg", "pressure_diff">>
          /\ csv.rows = <<>>
          /\ gret = <<NaN, NaN>>

\* C9 (step part): an iteration moves to the next multiple of 10 and adds
\* at most one row, and adds one only if both files exist and each holds an
\* energy and a pressure value.
C9_Step ==
    /\ i' # i => i' = i + 10
    /\ data' # data =>
          /\ Len(data') = Len(data) + 1
          /\ al_file.exists /\ almg_file.exists
          /\ HasEnergy(al_file) /\ HasPressure(al_file)
          /\ HasEnergy(almg_file) /\ HasPressure(almg_file)

\* C9: grep_energy scans 10, 20, ..., records a row only for an index whose
\* two files exist and hold all four values, and with no row still writes
\* the header-only CSV and returns (nan, nan).
C9_GrepEnergy == []C9_State /\ [][C9_Step]_vars

C9_Witness ==
    /\ gstatus = "returned"
    /\ data = <<>>
    /\ csv.written

====
